---- MODULE Spec2Model ----
(***************************************************************************)
(* neuroforge: heterogeneous neuron banks (stochastic, elastic, delay), a  *)
(* symbolic-rule overlay and the orchestrating network.                    *)
(*                                                                         *)
(* f64 values are modelled in fixed point: the integer v stands for        *)
(* v / One.  NaN is a distinguished value that every comparison rejects.   *)
(***************************************************************************)
EXTENDS Integers, Sequences, FiniteSets, TLC

\* ------------------------------------------------------------------------
\* Bounds of the model
\* ------------------------------------------------------------------------
MaxCalls == 102
MaxHigh == 1
MaxLayerSize == 2
MaxInputLen == 3
MaxOps == 4
MaxMutations == 1
MaxLayers == 2
MaxExamples == 1
MaxEpochs == 2
MaxSteps == 2

\* ------------------------------------------------------------------------
\* f64 arithmetic in fixed point
\* ------------------------------------------------------------------------
One == 1000
NaN == 999999999

Abs(a) == IF a < 0 THEN 0 - a ELSE a
Min2(a, b) == IF a < b THEN a ELSE b

\* division rounding towards zero (a / b on f64, up to the resolution)
TruncDiv(a, b) == IF (a < 0) = (b < 0) THEN Abs(a) \div Abs(b) ELSE 0 - (Abs(a) \div Abs(b))

\* a * b
FMul(a, b) == IF a = NaN \/ b = NaN THEN NaN ELSE TruncDiv(a * b, One)

\* a / b : 0.0 / 0.0 is NaN
FDiv(a, b) == IF a = NaN \/ b = NaN \/ b = 0 THEN NaN ELSE TruncDiv(a * One, b)

FSub(a, b) == IF a = NaN \/ b = NaN THEN NaN ELSE a - b
FAdd(a, b) == IF a = NaN \/ b = NaN THEN NaN ELSE a + b

\* a > b and a < b on f64: false as soon as one side is NaN
FGt(a, b) == a # NaN /\ b # NaN /\ a > b
FLt(a, b) == a # NaN /\ b # NaN /\ a < b

RECURSIVE SumSeq(_)
SumSeq(s) == IF s = <<>> THEN 0 ELSE FAdd(Head(s), SumSeq(Tail(s)))

\* 1.0 / (1.0 + (-x).exp()), quantised to three levels (monotone, 0.5 at 0)
Sigmoid(x) == IF x < 0 THEN 250 ELSE IF x = 0 THEN 500 ELSE 750

\* input.iter().zip(weights.iter()).map(|(x, w)| x * w).sum(): zip stops at
\* the shorter of the two vectors
RECURSIVE ZipDot(_, _)
ZipDot(input, weights) ==
    IF input = <<>> \/ weights = <<>> THEN 0
    ELSE FMul(Head(input), Head(weights)) + ZipDot(Tail(input), Tail(weights))

\* ------------------------------------------------------------------------
\* ElasticUnit (AdaptiveNeuron)
\* ------------------------------------------------------------------------
HISTORY_CAPACITY == 100

AdaptiveNeuron_new(weights) ==
    [weights |-> weights, activation_history |-> <<>>, importance_score |-> 0]

\* the activation computed by activate
AdaptiveNeuron_activation(neuron, input) == Sigmoid(ZipDot(input, neuron.weights))

\* (variant: the eviction test is len > 100)
AdaptiveNeuron_push_late(history, activation) ==
    IF Len(history) > HISTORY_CAPACITY
    THEN Append(Tail(history), activation)
    ELSE Append(history, activation)

\* the history update of activate: if len >= 100 { pop_front }; push_back
AdaptiveNeuron_push(history, activation) ==
    IF Len(history) >= HISTORY_CAPACITY
    THEN Append(Tail(history), activation)
    ELSE Append(history, activation)

AdaptiveNeuron_activate(neuron, input) ==
    [neuron EXCEPT !.activation_history =
        AdaptiveNeuron_push(@, AdaptiveNeuron_activation(neuron, input))]

\* calculate_gradients: the last activation is activation_history.back()
AdaptiveNeuron_calculate_gradients(neuron, error) ==
    LET last_activation == neuron.activation_history[Len(neuron.activation_history)]
        gradient == FMul(FMul(error, last_activation), One - last_activation)
    IN  [i \in 1..Len(neuron.weights) |-> FMul(gradient, neuron.weights[i])]

\* update_weights: weights.iter_mut().zip(gradients): *weight -= lr * gradient
AdaptiveNeuron_update_weights(neuron, gradients, learning_rate) ==
    [neuron EXCEPT !.weights =
        [i \in 1..Len(@) |-> IF i <= Len(gradients)
                             THEN @[i] - FMul(learning_rate, gradients[i])
                             ELSE @[i]]]

\* update_importance: avg = sum / len (0.0 / 0.0 on an empty history)
AdaptiveNeuron_avg_activation(neuron) ==
    FDiv(SumSeq(neuron.activation_history), Len(neuron.activation_history) * One)

AdaptiveNeuron_update_importance(neuron, emotional_state) ==
    [neuron EXCEPT !.importance_score =
        FMul(AdaptiveNeuron_avg_activation(neuron), FSub(One, emotional_state))]

\* mutate: every weight is either left alone (0) or perturbed
AdaptiveNeuron_mutate(neuron, perturbation) ==
    [neuron EXCEPT !.weights = [i \in 1..Len(@) |-> @[i] + perturbation[i]]]

\* ------------------------------------------------------------------------
\* ElasticBank (AdaptiveLayer)
\* ------------------------------------------------------------------------
\* ws: the weight vectors drawn by the random generator, one per unit
AdaptiveLayer_new(initial_neurons, max_neurons, min_neurons, adaptation_threshold, ws) ==
    [neurons |-> [k \in 1..initial_neurons |-> AdaptiveNeuron_new(ws[k])],
     max_neurons |-> max_neurons,
     min_neurons |-> min_neurons,
     adaptation_threshold |-> adaptation_threshold]

\* forward: every unit activates on the whole input
AdaptiveLayer_forward(layer, input) ==
    [layer EXCEPT !.neurons = [k \in 1..Len(@) |-> AdaptiveNeuron_activate(@[k], input)]]

AdaptiveLayer_forward_output(layer, input) ==
    [k \in 1..Len(layer.neurons) |-> AdaptiveNeuron_activation(layer.neurons[k], input)]

\* backward indexes neurons[0] and unwraps the last activation of every
\* unit that is paired with an error component
AdaptiveLayer_backward_panics(layer, error) ==
    \/ Len(layer.neurons) = 0
    \/ \E k \in 1..Min2(Len(layer.neurons), Len(error)) :
          layer.neurons[k].activation_history = <<>>

AdaptiveLayer_backward(layer, error, learning_rate) ==
    [layer EXCEPT !.neurons =
        [k \in 1..Len(@) |->
            IF k <= Len(error)
            THEN AdaptiveNeuron_update_weights(@[k],
                     AdaptiveNeuron_calculate_gradients(@[k], error[k]), learning_rate)
            ELSE @[k]]]

\* next_error: vec![0.0; neurons[0].weights.len()], summed over the paired units
AdaptiveLayer_backward_output(layer, error) ==
    [i \in 1..Len(layer.neurons[1].weights) |->
        SumSeq([k \in 1..Min2(Len(layer.neurons), Len(error)) |->
                   AdaptiveNeuron_calculate_gradients(layer.neurons[k], error[k])[i]])]

\* adapt, step 1: every unit recomputes its importance
AdaptiveLayer_scored(layer, emotional_state) ==
    [layer EXCEPT !.neurons =
        [k \in 1..Len(@) |-> AdaptiveNeuron_update_importance(@[k], emotional_state)]]

\* adapt, step 2: sort_by(|a, b| b.importance.partial_cmp(&a.importance).unwrap()):
\* a stable sort, descending; the unwrap panics on the first comparison that
\* involves NaN, and with two or more units every unit is compared
AdaptiveLayer_sort_panics(neurons) ==
    /\ Len(neurons) >= 2
    /\ \E k \in 1..Len(neurons) : neurons[k].importance_score = NaN

RECURSIVE InsertDescending(_, _)
InsertDescending(sorted, neuron) ==
    IF sorted = <<>> THEN <<neuron>>
    ELSE IF Head(sorted).importance_score >= neuron.importance_score
         THEN <<Head(sorted)>> \o InsertDescending(Tail(sorted), neuron)
         ELSE <<neuron>> \o sorted

RECURSIVE SortDescendingInto(_, _)
SortDescendingInto(sorted, rest) ==
    IF rest = <<>> THEN sorted
    ELSE SortDescendingInto(InsertDescending(sorted, Head(rest)), Tail(rest))

AdaptiveLayer_sorted(layer) ==
    [layer EXCEPT !.neurons = SortDescendingInto(<<>>, @)]

\* (variant: the growth test is len <= max_neurons)
AdaptiveLayer_grows_at_max(layer, emotional_state) ==
    /\ FGt(emotional_state, layer.adaptation_threshold)
    /\ Len(layer.neurons) <= layer.max_neurons

\* adapt, step 3: the two resize conditions
AdaptiveLayer_grows(layer, emotional_state) ==
    /\ FGt(emotional_state, layer.adaptation_threshold)
    /\ Len(layer.neurons) < layer.max_neurons

AdaptiveLayer_shrinks(layer, emotional_state) ==
    /\ ~AdaptiveLayer_grows(layer, emotional_state)
    /\ FLt(emotional_state, layer.adaptation_threshold)
    /\ Len(layer.neurons) > layer.min_neurons

\* growing reads neurons[0].weights.len(): an empty bank panics there
AdaptiveLayer_grow_panics(layer, emotional_state) ==
    /\ AdaptiveLayer_grows(layer, emotional_state)
    /\ Len(layer.neurons) = 0

\* (variant: the shrink removes the unit at the head of the ranking)
AdaptiveLayer_resized_pop_front(layer, emotional_state, w) ==
    IF AdaptiveLayer_grows(layer, emotional_state)
    THEN [layer EXCEPT !.neurons = Append(@, AdaptiveNeuron_new(w))]
    ELSE IF AdaptiveLayer_shrinks(layer, emotional_state)
    THEN [layer EXCEPT !.neurons = SubSeq(@, 2, Len(@))]
    ELSE layer

\* w: the weights drawn for the unit that is pushed
AdaptiveLayer_resized(layer, emotional_state, w) ==
    IF AdaptiveLayer_grows(layer, emotional_state)
    THEN [layer EXCEPT !.neurons = Append(@, AdaptiveNeuron_new(w))]
    ELSE IF AdaptiveLayer_shrinks(layer, emotional_state)
    THEN [layer EXCEPT !.neurons = SubSeq(@, 1, Len(@) - 1)]
    ELSE layer

\* adapt, step 4: plan maps the units the generator selected to the
\* perturbation of each of their weights
AdaptiveLayer_mutated(layer, plan) ==
    [layer EXCEPT !.neurons =
        [k \in 1..Len(@) |-> IF k \in DOMAIN plan
                             THEN AdaptiveNeuron_mutate(@[k], plan[k])
                             ELSE @[k]]]

\* ------------------------------------------------------------------------
\* DelayUnit (TemporalNeuron)
\* ------------------------------------------------------------------------
\* (-t.abs()).exp(), quantised
TemporalNeuron_temporal_kernel(t) ==
    IF Abs(t) = 0 THEN 1000
    ELSE IF Abs(t) < 1000 THEN 607
    ELSE IF Abs(t) < 2000 THEN 368
    ELSE 135

TemporalNeuron_new(weights, delays, plasticity) ==
    [weights |-> weights, delays |-> delays, activation_history |-> <<>>,
     plasticity |-> plasticity]

\* input.zip(weights).zip(delays): stops at the shortest of the three
RECURSIVE ZipDot3(_, _, _, _)
ZipDot3(input, weights, delays, time) ==
    IF input = <<>> \/ weights = <<>> \/ delays = <<>> THEN 0
    ELSE FMul(FMul(Head(input), Head(weights)),
              TemporalNeuron_temporal_kernel(time - Head(delays)))
         + ZipDot3(Tail(input), Tail(weights), Tail(delays), time)

TemporalNeuron_activation(neuron, input, time) ==
    Sigmoid(ZipDot3(input, neuron.weights, neuron.delays, time))

\* the history update of activate: push; if len > 100 { remove(0) }
TemporalNeuron_push(history, entry) ==
    LET pushed == Append(history, entry)
    IN  IF Len(pushed) > HISTORY_CAPACITY THEN Tail(pushed) ELSE pushed

TemporalNeuron_activate(neuron, input, time) ==
    [neuron EXCEPT !.activation_history =
        TemporalNeuron_push(@, <<time, TemporalNeuron_activation(neuron, input, time)>>)]

\* ------------------------------------------------------------------------
\* SymbolicOverlay (NeuroSymbolicLayer)
\* ------------------------------------------------------------------------
NumNames == 2
MaxVecLen == 2

RuleNames == 1..NumNames
\* the rule functions the harness registers (pure, vector -> scalar)
RuleFns == {"sum", "twice"}

ApplyRule(fn, v) ==
    IF fn = "sum" THEN SumSeq(v) ELSE 2 * SumSeq(v)

\* the exact partial derivative of a rule function with respect to any x_i
RuleDerivative(fn) ==
    IF fn = "sum" THEN One ELSE 2 * One

\* all orderings of a finite set, as sequences
Perms(S) == { p \in [1..Cardinality(S) -> S] : \A a \in S : \E i \in DOMAIN p : p[i] = a }

PositionOf(seq, a) == CHOOSE i \in DOMAIN seq : seq[i] = a

\* HashMap::insert: an existing key keeps its bucket and gets the new value;
\* a new key lands wherever its hash puts it, and the table may be rebuilt,
\* so the iteration order afterwards is any ordering of the keys.
HashMap_insert_orders(rules, order, name) ==
    IF name \in DOMAIN rules THEN {order}
    ELSE Perms(DOMAIN rules \cup {name})

\* process: neural_output = input.clone(); each rule, in the order of
\* symbolic_rules.values(), is applied to the vector built so far and its
\* output is pushed
RECURSIVE NeuroSymbolicLayer_process_loop(_, _, _)
NeuroSymbolicLayer_process_loop(rules, order, input) ==
    IF order = <<>> THEN input
    ELSE NeuroSymbolicLayer_process_loop(rules, Tail(order),
             Append(input, ApplyRule(rules[Head(order)], input)))

NeuroSymbolicLayer_process(rules, order, input) ==
    NeuroSymbolicLayer_process_loop(rules, order, input)

\* central finite difference of a rule at neural_output, component i
EPSILON == 1
NeuroSymbolicLayer_gradient(fn, x, i) ==
    LET pos_input == [x EXCEPT ![i] = @ + EPSILON]
        neg_input == [x EXCEPT ![i] = @ - EPSILON]
    IN  TruncDiv((ApplyRule(fn, pos_input) - ApplyRule(fn, neg_input)) * One, 2 * EPSILON)

\* (variant: the position is counted from the end of the enumeration)
NeuroSymbolicLayer_rule_index_reversed(order, n, name) ==
    n + Len(order) + 1 - PositionOf(order, name)

\* rule_index = neural_output.len() + symbolic_rules.keys().position(name)
\* (0-based in the source; sequences here are 1-based, so slot n + p holds
\* what the source calls index n + p - 1)
NeuroSymbolicLayer_rule_index(order, n, name) == n + PositionOf(order, name)

\* backward reads error[i] and error[rule_index]: an index past the end panics
NeuroSymbolicLayer_backward_panics(rules, x, error) ==
    /\ Len(x) > 0
    /\ Len(error) < Len(x) + Cardinality(DOMAIN rules)

\* (the contributions are summed in the iteration order of the temporary
\* symbolic_gradients map; the sum does not depend on it)
NeuroSymbolicLayer_backward(rules, order, x, error) ==
    [i \in 1..Len(x) |->
        error[i] + SumSeq([k \in 1..Len(order) |->
            FMul(error[NeuroSymbolicLayer_rule_index(order, Len(x), order[k])],
                 NeuroSymbolicLayer_gradient(rules[order[k]], x, i))])]

\* explain: one (name, output with two decimals) per rule, in iteration order
NeuroSymbolicLayer_explain(rules, order, x) ==
    [k \in 1..Len(order) |->
        [name |-> order[k], output |-> TruncDiv(ApplyRule(rules[order[k]], x), 10)]]

\* ------------------------------------------------------------------------
\* Network (NeuroForge), at the level of shapes: a vector is its length, a
\* unit is its weight count and whether it has ever been activated.  This is
\* what decides the lengths that flow through the pipeline, the size of the
\* banks and which calls panic; phases, weights and activations are left to
\* the unit and bank harnesses.
\* ------------------------------------------------------------------------
ShapeUnit(wlen) == [wlen |-> wlen, activated |-> FALSE]

\* QuantumLayer::new(size): size units, a size x size weight matrix
QuantumLayer_new(size) == [neurons |-> size, rows |-> size, cols |-> size]

\* TemporalLayer::new(size): size units of size weights
TemporalLayer_new(size) == [neurons |-> [k \in 1..size |-> ShapeUnit(size)]]

\* AdaptiveLayer::new(initial_neurons, max_neurons, min_neurons, threshold)
AdaptiveLayer_new_shape(initial_neurons, max_neurons, min_neurons, adaptation_threshold) ==
    [neurons |-> [k \in 1..initial_neurons |-> ShapeUnit(initial_neurons)],
     max_neurons |-> max_neurons,
     min_neurons |-> min_neurons,
     adaptation_threshold |-> adaptation_threshold]

\* (variant: the temporal flag is tested first)
NeuroForge_new_kind_temporal_first(is_adaptive, is_temporal) ==
    IF is_temporal THEN "temporal" ELSE IF is_adaptive THEN "adaptive" ELSE "quantum"

\* NeuroForge::new: if is_adaptive {..} else if is_temporal {..} else {..}
NeuroForge_new_kind(is_adaptive, is_temporal) ==
    IF is_adaptive THEN "adaptive" ELSE IF is_temporal THEN "temporal" ELSE "quantum"

\* the positions the zip of the three arrays visits
NeuroForge_new_positions(layer_sizes, adaptive, temporal) ==
    1..Min2(Len(layer_sizes), Min2(Len(adaptive), Len(temporal)))

\* the sizes of the positions of one kind, in configuration order
RECURSIVE SizesOfKind(_, _, _, _, _)
SizesOfKind(layer_sizes, adaptive, temporal, kind, p) ==
    IF p \notin NeuroForge_new_positions(layer_sizes, adaptive, temporal) THEN <<>>
    ELSE (IF NeuroForge_new_kind(adaptive[p], temporal[p]) = kind
          THEN <<layer_sizes[p]>> ELSE <<>>)
         \o SizesOfKind(layer_sizes, adaptive, temporal, kind, p + 1)

NeuroForge_new(layer_sizes, adaptive, temporal) ==
    LET q == SizesOfKind(layer_sizes, adaptive, temporal, "quantum", 1)
        a == SizesOfKind(layer_sizes, adaptive, temporal, "adaptive", 1)
        t == SizesOfKind(layer_sizes, adaptive, temporal, "temporal", 1)
    IN  [quantum_layers |-> [k \in 1..Len(q) |-> QuantumLayer_new(q[k])],
         adaptive_layers |-> [k \in 1..Len(a) |->
              AdaptiveLayer_new_shape(a[k], a[k] * 2, a[k] \div 2, 100)],
         temporal_layers |-> [k \in 1..Len(t) |-> TemporalLayer_new(t[k])],
         emotional_state |-> 500]

\* QuantumLayer::forward: weights.dot(input) panics unless the input has as
\* many entries as the matrix has columns; the units are zipped with the
\* products
QuantumLayer_forward_panics(l, inLen) == inLen # l.cols
QuantumLayer_forward_len(l, inLen) == Min2(l.neurons, l.rows)

\* the stochastic banks in order: the length that leaves the last one
RECURSIVE QuantumLayers_forward(_, _)
QuantumLayers_forward(layers, inLen) ==
    IF layers = <<>> THEN [ok |-> TRUE, len |-> inLen]
    ELSE IF QuantumLayer_forward_panics(Head(layers), inLen) THEN [ok |-> FALSE, len |-> 0]
    ELSE QuantumLayers_forward(Tail(layers), QuantumLayer_forward_len(Head(layers), inLen))

\* AdaptiveLayer::forward / TemporalLayer::forward: every unit activates
\* (the zip inside activate takes whatever length it is given) and yields
\* one output
UnitLayer_forward(l) ==
    [l EXCEPT !.neurons = [k \in 1..Len(@) |-> [@[k] EXCEPT !.activated = TRUE]]]

UnitLayers_forward_len(layers, inLen) ==
    IF layers = <<>> THEN inLen ELSE Len(layers[Len(layers)].neurons)

\* EmotionalMemory::store: if len >= capacity { pop_front }; push_back
MEMORY_CAPACITY == 100
EmotionalMemory_store(count) == IF count >= MEMORY_CAPACITY THEN count ELSE count + 1

\* NeuroSymbolicLayer::backward with no rule registered: reads error[i] for
\* every i below neural_output.len()
Overlay_backward_panics(nlen, errLen) == nlen > 0 /\ errLen < nlen

\* AdaptiveLayer::backward / TemporalLayer::backward: neurons[0] must exist
\* and every unit paired with an error component must have a last activation
UnitLayer_backward_panics(l, errLen) ==
    \/ Len(l.neurons) = 0
    \/ \E k \in 1..Min2(Len(l.neurons), errLen) : ~l.neurons[k].activated

UnitLayer_backward_len(l) == l.neurons[1].wlen

\* layers.iter_mut().rev(): the banks of one kind, last first
RECURSIVE UnitLayers_backward(_, _)
UnitLayers_backward(layers, errLen) ==
    IF layers = <<>> THEN [ok |-> TRUE, len |-> errLen]
    ELSE LET l == layers[Len(layers)]
         IN  IF UnitLayer_backward_panics(l, errLen) THEN [ok |-> FALSE, len |-> 0]
             ELSE UnitLayers_backward(SubSeq(layers, 1, Len(layers) - 1),
                                      UnitLayer_backward_len(l))

\* QuantumLayer::backward: next_error has weights.shape()[1] entries
RECURSIVE QuantumLayers_backward(_, _)
QuantumLayers_backward(layers, errLen) ==
    IF layers = <<>> THEN errLen
    ELSE QuantumLayers_backward(SubSeq(layers, 1, Len(layers) - 1), layers[Len(layers)].cols)

\* NeuroForge::backward: overlay, then temporal, adaptive, quantum banks
NeuroForge_backward_ok(net, nlen, targetLen) ==
    /\ ~Overlay_backward_panics(nlen, targetLen)
    /\ LET t == UnitLayers_backward(net.temporal_layers, nlen)
       IN  /\ t.ok
           /\ UnitLayers_backward(net.adaptive_layers, t.len).ok

\* update_emotional_state: error = sum over zip(output, target) / output.len();
\* mse is the value of the sum over the zipped pairs divided by the length
NeuroForge_update_emotional_state(emotional_state, mse) ==
    FAdd(FMul(900, emotional_state), FMul(100, mse))

\* AdaptiveLayer::adapt on shapes: the importance of a unit is NaN when it
\* has never been activated or when emotional_state is NaN
AdaptiveLayer_adapt_shape_panics(l, emotional_state) ==
    \/ /\ Len(l.neurons) >= 2
       /\ \/ emotional_state = NaN
          \/ \E k \in 1..Len(l.neurons) : ~l.neurons[k].activated
    \/ AdaptiveLayer_grow_panics(l, emotional_state)

AdaptiveLayer_adapt_shape(l, emotional_state) ==
    IF AdaptiveLayer_grows(l, emotional_state)
    THEN [l EXCEPT !.neurons = Append(@, ShapeUnit(@[1].wlen))]
    ELSE IF AdaptiveLayer_shrinks(l, emotional_state)
    THEN [l EXCEPT !.neurons = SubSeq(@, 1, Len(@) - 1)]
    ELSE l

\* adapt_architecture: every elastic bank in turn; a panic stops the loop
RECURSIVE NeuroForge_adapt_architecture(_, _)
NeuroForge_adapt_architecture(layers, emotional_state) ==
    IF layers = <<>> THEN [ok |-> TRUE, layers |-> <<>>]
    ELSE IF AdaptiveLayer_adapt_shape_panics(Head(layers), emotional_state)
    THEN [ok |-> FALSE, layers |-> layers]
    ELSE LET rest == NeuroForge_adapt_architecture(Tail(layers), emotional_state)
         IN  [ok |-> rest.ok,
              layers |-> <<AdaptiveLayer_adapt_shape(Head(layers), emotional_state)>>
                         \o rest.layers]

\* (variant: the architecture is adapted before the emotional state is updated)
NeuroForge_train_step_adapt_first == <<"forward", "backward", "adapt", "update">>

\* train: the calls of one training step, in program order
NeuroForge_train_step == <<"forward", "backward", "update", "adapt">>

\* ------------------------------------------------------------------------
\* State
\* ------------------------------------------------------------------------
VARIABLES
    hkind,          \* unit harness: which unit is driven ("elastic", "delay", "none")
    aneuron,        \* unit harness: the ElasticUnit
    tneuron,        \* unit harness: the DelayUnit
    hlog,           \* unit harness: every value a call of activate recorded, in call order
    nhigh,          \* unit harness: number of calls with a non-zero input so far
    symbolic_rules, \* overlay: name -> rule function
    rule_order,     \* overlay: the iteration order of the symbolic_rules map
    neural_output,  \* overlay: the vector cached by the last process
    sstatus,        \* overlay: "ok" or "panicked"
    inserted,       \* overlay (history): names in the order of their first add_rule
    pslots,         \* overlay (history): name -> slot of its output in the last process result
    pvalid,         \* overlay (history): process has run and no add_rule since
    slast,          \* overlay (history): the last call, its argument and its result
    layer,          \* bank harness: the ElasticBank
    bstatus,        \* bank harness: "ok" or "panicked"
    nops,           \* bank harness: number of calls made so far
    nmut,           \* bank harness: number of units the mutation pass has selected so far
    blast,          \* bank harness (history): the last call, the bank it was made on and
                    \* the units its mutation pass selected
    cfg,            \* network (history): the arrays NeuroForge::new was given
    net,            \* network: the three bank lists and emotional_state
    overlay_len,    \* network: length of the overlay's cached neural_output
    memories,       \* network: number of entries in the emotional memory
    nstatus,        \* network: "ok" or "panicked"
    pc,             \* network: 0 outside train, else the position in the training step
    tr,             \* network: the arguments of the running train call and its loop indices
    output,         \* network: length of the vector the last forward returned
    nsteps,         \* network: number of forward passes started so far
    events,         \* network (history): the calls of the current training step, in order
    writes,         \* network (history): writes to emotional_state in the current training step
    written,        \* network (history): the value the last update wrote
    adapt_arg,      \* network (history): the value the last adapt_architecture passed on
    nlast           \* network (history): the last call

histVars == <<hkind, aneuron, tneuron, hlog, nhigh>>
symVars == <<symbolic_rules, rule_order, neural_output, sstatus, inserted, pslots, pvalid, slast>>
bankVars == <<layer, bstatus, nops, nmut, blast>>
netVars == <<cfg, net, overlay_len, memories, nstatus, pc, tr, output, nsteps, events,
            writes, written, adapt_arg, nlast>>
vars == <<histVars, symVars, bankVars, netVars>>

NoCall == [op |-> "none", arg |-> <<>>, result |-> <<>>]

HistIdle ==
    /\ hkind = "none"
    /\ aneuron = AdaptiveNeuron_new(<<>>)
    /\ tneuron = TemporalNeuron_new(<<>>, <<>>, 0)
    /\ hlog = <<>>
    /\ nhigh = 0

\* NeuroSymbolicLayer::new
NeuroSymbolicLayer_new ==
    /\ symbolic_rules = <<>>
    /\ rule_order = <<>>
    /\ neural_output = <<>>
    /\ sstatus = "ok"
    /\ inserted = <<>>
    /\ pslots = <<>>
    /\ pvalid = FALSE
    /\ slast = NoCall

SymIdle == NeuroSymbolicLayer_new

NoTrain == [inputs |-> <<>>, targets |-> <<>>, epochs |-> 0, epoch |-> 0, idx |-> 0]
NoNetCall == [op |-> "none", inLen |-> 0, outLen |-> 0]

NetStart(layer_sizes, adaptive, temporal) ==
    /\ cfg = [layer_sizes |-> layer_sizes, adaptive |-> adaptive, temporal |-> temporal]
    /\ net = NeuroForge_new(layer_sizes, adaptive, temporal)
    /\ overlay_len = 0
    /\ memories = 0
    /\ nstatus = "ok"
    /\ pc = 0
    /\ tr = NoTrain
    /\ output = 0
    /\ nsteps = 0
    /\ events = <<>>
    /\ writes = 0
    /\ written = 500
    /\ adapt_arg = 500
    /\ nlast = NoNetCall

NetIdle == NetStart(<<>>, <<>>, <<>>)

NoBankCall == [op |-> "none", arg |-> <<>>, before |-> 0, unactivated |-> FALSE, result |-> <<>>,
               mutated |-> {}]

BankIdle ==
    /\ layer = AdaptiveLayer_new(0, 0, 0, 0, <<>>)
    /\ bstatus = "ok"
    /\ nops = 0
    /\ nmut = 0
    /\ blast = NoBankCall

\* ------------------------------------------------------------------------
\* Unit harness: one unit, activated again and again
\* ------------------------------------------------------------------------
\* the calls the harness makes: <<input, time, non-zero?>>
HistCalls == { <<<<0>>, 0, 0>>, <<<<1000>>, 0, 1>>, <<<<1000>>, 1000, 1>> }

InitHist ==
    /\ hkind \in {"elastic", "delay"}
    /\ aneuron = AdaptiveNeuron_new(<<500>>)
    /\ tneuron = TemporalNeuron_new(<<500>>, <<0>>, 50)
    /\ hlog = <<>>
    /\ nhigh = 0
    /\ SymIdle
    /\ BankIdle
    /\ NetIdle

ElasticActivate ==
    /\ hkind = "elastic"
    /\ Len(hlog) < MaxCalls
    /\ \E c \in HistCalls :
        /\ nhigh + c[3] <= MaxHigh
        /\ nhigh' = nhigh + c[3]
        /\ aneuron' = AdaptiveNeuron_activate(aneuron, c[1])
        /\ hlog' = Append(hlog, AdaptiveNeuron_activation(aneuron, c[1]))
    /\ UNCHANGED <<hkind, tneuron, symVars, bankVars, netVars>>

DelayActivate ==
    /\ hkind = "delay"
    /\ Len(hlog) < MaxCalls
    /\ \E c \in HistCalls :
        /\ nhigh + c[3] <= MaxHigh
        /\ nhigh' = nhigh + c[3]
        /\ tneuron' = TemporalNeuron_activate(tneuron, c[1], c[2])
        /\ hlog' = Append(hlog, <<c[2], TemporalNeuron_activation(tneuron, c[1], c[2])>>)
    /\ UNCHANGED <<hkind, aneuron, symVars, bankVars, netVars>>

NextHist == ElasticActivate \/ DelayActivate

SpecHist == InitHist /\ [][NextHist]_vars

\* the most recent min(n, 100) entries of a log
Recent(log) ==
    IF Len(log) <= 100 THEN log
    ELSE SubSeq(log, Len(log) - 99, Len(log))

\* C5: after any number of activate calls the history of an ElasticUnit or
\* a DelayUnit holds at most 100 entries and is exactly the most recent
\* min(n, 100) recorded activations, oldest first.
C5_HistoryIsRecentWindow ==
    /\ Len(aneuron.activation_history) <= 100
    /\ Len(tneuron.activation_history) <= 100
    /\ hkind = "elastic" => aneuron.activation_history = Recent(hlog)
    /\ hkind = "delay" => tneuron.activation_history = Recent(hlog)

\* a full history has had its oldest entry evicted, for either unit
C5_Witness ==
    /\ Len(hlog) > 101
    /\ nhigh > 0
    /\ hlog[1] # hlog[2]
    /\ \/ hkind = "elastic" /\ aneuron.activation_history = SubSeq(hlog, Len(hlog) - 99, Len(hlog))
       \/ hkind = "delay" /\ tneuron.activation_history = SubSeq(hlog, Len(hlog) - 99, Len(hlog))

\* ------------------------------------------------------------------------
\* Overlay harness: add_rule, process, backward, explain in any order
\* ------------------------------------------------------------------------
SymValues == {1000, 2000}
\* one error vector per length, every component different
ErrorVectors(maxLen) == { [i \in 1..n |-> i * One] : n \in 0..maxLen }

VectorsOver(S, maxLen) == UNION { [1..n -> S] : n \in 0..maxLen }

InitSym ==
    /\ NeuroSymbolicLayer_new
    /\ HistIdle
    /\ BankIdle
    /\ NetIdle

\* add_rule(name, rule): symbolic_rules.insert(name, rule)
AddRule ==
    /\ sstatus = "ok"
    /\ \E name \in RuleNames, fn \in RuleFns :
        /\ symbolic_rules' = [n \in DOMAIN symbolic_rules \cup {name} |->
                                 IF n = name THEN fn ELSE symbolic_rules[n]]
        /\ rule_order' \in HashMap_insert_orders(symbolic_rules, rule_order, name)
        /\ inserted' = IF name \in DOMAIN symbolic_rules THEN inserted
                       ELSE Append(inserted, name)
        /\ slast' = [op |-> "add_rule", arg |-> <<>>, result |-> <<>>]
    /\ pvalid' = FALSE
    /\ UNCHANGED <<neural_output, sstatus, pslots, histVars, bankVars, netVars>>

\* process(input)
Process ==
    /\ sstatus = "ok"
    /\ \E input \in VectorsOver(SymValues, MaxVecLen) :
        /\ neural_output' = input
        /\ slast' = [op |-> "process", arg |-> input,
                     result |-> NeuroSymbolicLayer_process(symbolic_rules, rule_order, input)]
        /\ pslots' = [name \in DOMAIN symbolic_rules |->
                         Len(input) + PositionOf(rule_order, name)]
    /\ pvalid' = TRUE
    /\ UNCHANGED <<symbolic_rules, rule_order, sstatus, inserted, histVars, bankVars, netVars>>

\* backward(error): &self, nothing is written
Backward ==
    /\ sstatus = "ok"
    /\ \E error \in ErrorVectors(MaxVecLen + NumNames) :
        IF NeuroSymbolicLayer_backward_panics(symbolic_rules, neural_output, error)
        THEN /\ sstatus' = "panicked"
             /\ slast' = [op |-> "backward", arg |-> error, result |-> <<>>]
        ELSE /\ sstatus' = sstatus
             /\ slast' = [op |-> "backward", arg |-> error,
                          result |-> NeuroSymbolicLayer_backward(symbolic_rules, rule_order,
                                                                 neural_output, error)]
    /\ UNCHANGED <<symbolic_rules, rule_order, neural_output, inserted, pslots, pvalid, histVars, bankVars, netVars>>

\* explain(): &self
Explain ==
    /\ sstatus = "ok"
    /\ slast' = [op |-> "explain", arg |-> <<>>,
                 result |-> NeuroSymbolicLayer_explain(symbolic_rules, rule_order, neural_output)]
    /\ UNCHANGED <<symbolic_rules, rule_order, neural_output, sstatus, inserted, pslots,
                   pvalid, histVars, bankVars, netVars>>

NextSym == AddRule \/ Process \/ Backward \/ Explain

SpecSym == InitSym /\ [][NextSym]_vars

\* C6: backward, called after process with |error| = |x| + number of rules,
\* returns |x| components; component i is error[i] plus, for every rule,
\* the error in the slot where process put that rule's output times the
\* rule's derivative with respect to x_i.
C6_BackwardUsesProcessSlots ==
    (/\ slast.op = "backward"
     /\ sstatus = "ok"
     /\ pvalid
     /\ Len(slast.arg) = Len(neural_output) + Cardinality(DOMAIN symbolic_rules))
    => /\ Len(slast.result) = Len(neural_output)
       /\ \A i \in 1..Len(neural_output) :
            slast.result[i] =
                slast.arg[i]
                + SumSeq([k \in 1..Len(inserted) |->
                            FMul(slast.arg[pslots[inserted[k]]],
                                 RuleDerivative(symbolic_rules[inserted[k]]))])

\* two rules with different derivatives, enumerated against insertion
\* order, and a backward call whose two rule slots carry different errors
C6_Witness ==
    /\ slast.op = "backward"
    /\ sstatus = "ok"
    /\ pvalid
    /\ Len(neural_output) > 0
    /\ Cardinality(DOMAIN symbolic_rules) = 2
    /\ rule_order # inserted
    /\ Len(slast.arg) = Len(neural_output) + 2
    /\ slast.arg[Len(neural_output) + 1] # slast.arg[Len(neural_output) + 2]
    /\ RuleDerivative(symbolic_rules[1]) # RuleDerivative(symbolic_rules[2])

\* C7: the overlay enumerates its rules in insertion order: process returns
\* x followed by the rule outputs in the order the names were first added,
\* and explain lists the rules in that order.
C7_InsertionOrder ==
    /\ slast.op = "process" =>
         slast.result = NeuroSymbolicLayer_process(symbolic_rules, inserted, slast.arg)
    /\ slast.op = "explain" =>
         slast.result = NeuroSymbolicLayer_explain(symbolic_rules, inserted, neural_output)

\* ------------------------------------------------------------------------
\* Bank harness: one ElasticBank as NeuroForge::new builds it, then
\* forward, backward and adapt in any order
\* ------------------------------------------------------------------------
\* the weight vectors the generator may draw for a unit with n inputs
InitWeights(n) == { [i \in 1..n |-> v] : v \in {-500, 500} }

\* NeuroForge::new, adaptive branch: AdaptiveLayer::new(size, size * 2, size / 2, 0.1)
NeuroForge_new_adaptive(size, ws) ==
    AdaptiveLayer_new(size, size * 2, size \div 2, 100, ws)

EmotionValues == {50, 100, 500, NaN}
BankInputs == VectorsOver({1000}, MaxInputLen)
LearningRates == {100}

HasUnactivated(l) == \E k \in 1..Len(l.neurons) : l.neurons[k].activation_history = <<>>

\* the units the mutation pass may select (within the budget of the harness)
\* and the perturbation of each of their weights: 0 is a weight left alone
MutationPlans(l, budget) ==
    LET n == Len(l.neurons)
        wlen == IF n = 0 THEN 0 ELSE Len(l.neurons[1].weights)
        chosen == { c \in SUBSET (1..n) : Cardinality(c) <= budget }
    IN  UNION { [c -> [1..wlen -> {0, -50, 50}]] : c \in chosen }

InitBank ==
    /\ \E size \in 0..MaxLayerSize :
         \E ws \in [1..size -> InitWeights(size)] :
            layer = NeuroForge_new_adaptive(size, ws)
    /\ bstatus = "ok"
    /\ nops = 0
    /\ nmut = 0
    /\ blast = NoBankCall
    /\ HistIdle
    /\ SymIdle
    /\ NetIdle

BankCall(op, arg, result) ==
    [op |-> op, arg |-> arg, before |-> Len(layer.neurons),
     unactivated |-> HasUnactivated(layer), result |-> result, mutated |-> {}]

\* AdaptiveLayer::forward(input)
BankForward ==
    /\ bstatus = "ok"
    /\ nops < MaxOps
    /\ \E input \in BankInputs :
        /\ layer' = AdaptiveLayer_forward(layer, input)
        /\ blast' = BankCall("forward", input, AdaptiveLayer_forward_output(layer, input))
    /\ nops' = nops + 1
    /\ UNCHANGED <<bstatus, nmut, histVars, symVars, netVars>>

\* AdaptiveLayer::backward(error, learning_rate)
BankBackward ==
    /\ bstatus = "ok"
    /\ nops < MaxOps
    /\ \E error \in BankInputs, learning_rate \in LearningRates :
        IF AdaptiveLayer_backward_panics(layer, error)
        THEN /\ layer' = layer
             /\ bstatus' = "panicked"
             /\ blast' = BankCall("backward", error, <<>>)
        ELSE /\ layer' = AdaptiveLayer_backward(layer, error, learning_rate)
             /\ bstatus' = bstatus
             /\ blast' = BankCall("backward", error, AdaptiveLayer_backward_output(layer, error))
    /\ nops' = nops + 1
    /\ UNCHANGED <<nmut, histVars, symVars, netVars>>

\* AdaptiveLayer::adapt(emotional_state): score, rank, resize, mutate.
\* A panic ends the call where it happens; the order in which the sort
\* leaves the units is then unspecified and the bank is not used again.
BankAdapt ==
    /\ bstatus = "ok"
    /\ nops < MaxOps
    /\ \E emotional_state \in EmotionValues :
        LET scored == AdaptiveLayer_scored(layer, emotional_state)
            sorted == AdaptiveLayer_sorted(scored)
            call == BankCall("adapt", <<emotional_state>>, <<>>)
        IN     IF AdaptiveLayer_sort_panics(scored.neurons)
               THEN /\ layer' = scored
                    /\ bstatus' = "panicked"
                    /\ nmut' = nmut
                    /\ blast' = call
               ELSE IF AdaptiveLayer_grow_panics(sorted, emotional_state)
               THEN /\ layer' = sorted
                    /\ bstatus' = "panicked"
                    /\ nmut' = nmut
                    /\ blast' = call
               ELSE \E w \in IF AdaptiveLayer_grows(sorted, emotional_state)
                             THEN InitWeights(Len(sorted.neurons[1].weights))
                             ELSE {<<>>} :
                      LET resized == AdaptiveLayer_resized(sorted, emotional_state, w)
                      IN  \E plan \in MutationPlans(resized, MaxMutations - nmut) :
                            /\ layer' = AdaptiveLayer_mutated(resized, plan)
                            /\ nmut' = nmut + Cardinality(DOMAIN plan)
                            /\ bstatus' = bstatus
                            /\ blast' = [call EXCEPT !.mutated = DOMAIN plan]
    /\ nops' = nops + 1
    /\ UNCHANGED <<histVars, symVars, netVars>>

NextBank == BankForward \/ BankBackward \/ BankAdapt

SpecBank == InitBank /\ [][NextBank]_vars

\* C1: an ElasticBank built by the Network constructor keeps
\* min_neurons <= size <= max_neurons through every forward, backward and
\* adapt call, whatever emotional_state adapt is given.
C1_SizeWithinBounds ==
    /\ layer.min_neurons <= Len(layer.neurons)
    /\ Len(layer.neurons) <= layer.max_neurons

\* adapt asked to grow a bank that already holds max_neurons units
C1_Witness ==
    /\ blast.op = "adapt"
    /\ blast.arg = <<500>>
    /\ bstatus = "ok"
    /\ blast.before = layer.max_neurons
    /\ layer.max_neurons > 0

\* C8: a forward call whose input length differs from the bank's input
\* dimension fails fast; no output is computed from a truncated input.
C8_MismatchFailsFast ==
    (/\ blast.op = "forward"
     /\ blast.before > 0
     /\ Len(blast.arg) # Len(layer.neurons[1].weights))
    => /\ bstatus = "panicked"
       /\ blast.result = <<>>

\* C9: adapt on a bank in which some unit has never been activated gives
\* every unit a defined importance and completes.
C9_EmptyHistoryGuarded ==
    (/\ blast.op = "adapt"
     /\ blast.unactivated
     /\ blast.arg # <<NaN>>)
    => /\ bstatus = "ok"
       /\ \A k \in 1..Len(layer.neurons) : layer.neurons[k].importance_score # NaN

\* C10: one adapt(e) call grows the bank by exactly one unit iff
\* e > adaptation_threshold and size < max_neurons, shrinks it by exactly
\* one iff e < adaptation_threshold and size > min_neurons, and leaves the
\* size alone otherwise (in particular when e equals the threshold).
C10_ResizeByOne ==
    blast.op = "adapt" =>
        LET e == blast.arg[1]
            before == blast.before
            size == Len(layer.neurons)
            up == FGt(e, layer.adaptation_threshold) /\ before < layer.max_neurons
            down == FLt(e, layer.adaptation_threshold) /\ before > layer.min_neurons
        IN  /\ (size = before + 1) <=> up
            /\ (size = before - 1) <=> down
            /\ (~up /\ ~down) => size = before
            /\ e = layer.adaptation_threshold => size = before

\* the same statement for the calls that return
C10_ResizeByOne_WhenReturning == bstatus = "ok" => C10_ResizeByOne

\* a <= b on f64: false as soon as one side is NaN
FLe(a, b) == a # NaN /\ b # NaN /\ a <= b

\* the ways n surviving units can be matched, one to one, with the units of
\* a bank of m units other than the one removed
Survivors(n, m, removed) ==
    { f \in [1..n -> (1..m) \ {removed}] : \A i, j \in 1..n : f[i] = f[j] => i = j }

\* C11: when adapt shrinks the bank, the unit removed has an importance, as
\* recomputed in that call from its history and the given emotional_state,
\* less than or equal to that of every unit that remains; the remaining
\* units are ordered by descending importance; every surviving unit keeps
\* its own history and, unless the mutation pass of that call selected it,
\* its own weights.
C11_ShrinkRemovesLeastImportant ==
    [][(/\ blast'.op = "adapt"
        /\ nops' = nops + 1
        /\ Len(layer'.neurons) = Len(layer.neurons) - 1)
       => LET e == blast'.arg[1]
              prior == layer.neurons
              after == layer'.neurons
              Importance(u) == AdaptiveNeuron_update_importance(u, e).importance_score
          IN  /\ \E removed \in 1..Len(prior) :
                   \E f \in Survivors(Len(after), Len(prior), removed) :
                      \A k \in 1..Len(after) :
                         /\ after[k].activation_history = prior[f[k]].activation_history
                         /\ after[k].importance_score = Importance(prior[f[k]])
                         /\ k \notin blast'.mutated => after[k].weights = prior[f[k]].weights
                         /\ Len(after[k].weights) = Len(prior[f[k]].weights)
                         /\ FLe(Importance(prior[removed]), after[k].importance_score)
              /\ \A k \in 1..(Len(after) - 1) :
                   FLe(after[k + 1].importance_score, after[k].importance_score)
      ]_vars

\* adapt has shrunk a bank of three units whose ranking was not a tie: two
\* units remain, the first strictly more important than the second
C11_Witness ==
    /\ blast.op = "adapt"
    /\ bstatus = "ok"
    /\ blast.before = 3
    /\ Len(layer.neurons) = 2
    /\ FLt(layer.neurons[2].importance_score, layer.neurons[1].importance_score)

\* the bank holds a unit and all its units have weight vectors of one length
HoldsAUnit ==
    /\ Len(layer.neurons) >= 1
    /\ \A j, k \in 1..Len(layer.neurons) :
          Len(layer.neurons[j].weights) = Len(layer.neurons[k].weights)

\* C12: a bank built by the Network constructor with layer size s >= 1
\* (max_neurons = 2 * s >= 2) holds at least one unit after any sequence of
\* forward, backward and adapt calls, so neurons[0] is always there, and
\* every unit of the bank has the same weight-vector length.
C12_BankKeepsAUnit == layer.max_neurons >= 2 => HoldsAUnit

\* the same statement for layer sizes s >= 2, for which min_neurons = s / 2 >= 1
C12_BankKeepsAUnit_FromSizeTwo == layer.max_neurons >= 4 => HoldsAUnit

\* a call that indexed neurons[0] on a bank the constructor built with one
\* unit and a shrink has emptied
C12_EmptiedBankIndexed ==
    /\ layer.max_neurons = 2
    /\ blast.op \in {"backward", "adapt"}
    /\ blast.before = 0
    /\ bstatus = "panicked"

\* ------------------------------------------------------------------------
\* Network harness: a network as NeuroForge::new builds it, then forward
\* and train
\* ------------------------------------------------------------------------
NetLens == 0..MaxLayerSize
MseValues == {0, 4000}

InitNet ==
    /\ \E layer_sizes \in VectorsOver(NetLens, MaxLayers),
          adaptive \in VectorsOver(BOOLEAN, MaxLayers),
          temporal \in VectorsOver(BOOLEAN, MaxLayers) :
         NetStart(layer_sizes, adaptive, temporal)
    /\ HistIdle
    /\ SymIdle
    /\ BankIdle

\* NeuroForge::forward(input, time) on the current network: what it leaves
\* behind and whether it returns
NeuroForge_forward(inLen) ==
    LET q == QuantumLayers_forward(net.quantum_layers, inLen)
        a == UnitLayers_forward_len(net.adaptive_layers, q.len)
        t == UnitLayers_forward_len(net.temporal_layers, a)
    IN  IF ~q.ok
        THEN [ok |-> FALSE, net |-> net, overlay_len |-> overlay_len,
              memories |-> memories, output |-> output]
        ELSE [ok |-> TRUE,
              net |-> [net EXCEPT
                  !.adaptive_layers = [k \in 1..Len(@) |-> UnitLayer_forward(@[k])],
                  !.temporal_layers = [k \in 1..Len(@) |-> UnitLayer_forward(@[k])]],
              overlay_len |-> t,
              memories |-> EmotionalMemory_store(memories),
              output |-> t]

ApplyForward(inLen) ==
    LET f == NeuroForge_forward(inLen)
    IN  /\ net' = f.net
        /\ overlay_len' = f.overlay_len
        /\ memories' = f.memories
        /\ output' = f.output
        /\ nstatus' = IF f.ok THEN "ok" ELSE "panicked"
        /\ nlast' = [op |-> "forward", inLen |-> inLen, outLen |-> f.output]
        /\ nsteps' = nsteps + 1

\* the position after a call of the training step that returned
Advance ==
    IF pc < Len(NeuroForge_train_step)
    THEN pc' = pc + 1 /\ tr' = tr
    ELSE LET zipped == Min2(Len(tr.inputs), Len(tr.targets))
         IN  IF tr.idx < zipped THEN pc' = 1 /\ tr' = [tr EXCEPT !.idx = @ + 1]
             ELSE IF tr.epoch + 1 < tr.epochs
             THEN pc' = 1 /\ tr' = [tr EXCEPT !.epoch = @ + 1, !.idx = 1]
             ELSE pc' = 0 /\ tr' = NoTrain

\* the training step is at the given call
At(call) ==
    /\ nstatus = "ok"
    /\ pc >= 1
    /\ NeuroForge_train_step[pc] = call

Step(call) ==
    /\ events' = IF pc = 1 THEN <<call>> ELSE Append(events, call)
    /\ IF nstatus' = "ok" THEN Advance ELSE UNCHANGED <<pc, tr>>

\* forward(input, time), called from outside
NetForward ==
    /\ nstatus = "ok"
    /\ pc = 0
    /\ nsteps < MaxSteps
    /\ \E inLen \in NetLens : ApplyForward(inLen)
    /\ UNCHANGED <<cfg, pc, tr, events, writes, written, adapt_arg, histVars, symVars, bankVars>>

\* train(inputs, targets, epochs, learning_rate): enters the loops
Train ==
    /\ nstatus = "ok"
    /\ pc = 0
    /\ nsteps < MaxSteps
    /\ \E inputs \in VectorsOver(NetLens, MaxExamples),
          targets \in VectorsOver(NetLens, MaxExamples),
          epochs \in 0..MaxEpochs :
         IF epochs > 0 /\ Min2(Len(inputs), Len(targets)) > 0
         THEN /\ pc' = 1
              /\ tr' = [inputs |-> inputs, targets |-> targets, epochs |-> epochs,
                        epoch |-> 0, idx |-> 1]
         ELSE /\ pc' = 0
              /\ tr' = NoTrain
    /\ nlast' = [op |-> "train", inLen |-> 0, outLen |-> 0]
    /\ UNCHANGED <<cfg, net, overlay_len, memories, nstatus, output, nsteps, events, writes,
                   written, adapt_arg, histVars, symVars, bankVars>>

\* train: let output = self.forward(input, 0.0)
TrainForward ==
    /\ At("forward")
    /\ nsteps < MaxSteps
    /\ ApplyForward(tr.inputs[tr.idx])
    /\ Step("forward")
    /\ writes' = IF pc = 1 THEN 0 ELSE writes
    /\ UNCHANGED <<cfg, written, adapt_arg, histVars, symVars, bankVars>>

\* train: total_error += self.backward(target, learning_rate)
TrainBackward ==
    /\ At("backward")
    /\ nstatus' = IF NeuroForge_backward_ok(net, overlay_len, tr.targets[tr.idx])
                  THEN "ok" ELSE "panicked"
    /\ nlast' = [op |-> "backward", inLen |-> tr.targets[tr.idx],
                 outLen |-> QuantumLayers_backward(net.quantum_layers, 0)]
    /\ Step("backward")
    /\ writes' = IF pc = 1 THEN 0 ELSE writes
    /\ UNCHANGED <<cfg, net, overlay_len, memories, output, nsteps, written, adapt_arg,
                   histVars, symVars, bankVars>>

\* train: self.update_emotional_state(&output, target)
TrainUpdate ==
    /\ At("update")
    /\ \E mse \in IF output = 0 THEN {NaN}
                  ELSE IF Min2(output, tr.targets[tr.idx]) = 0 THEN {0}
                  ELSE MseValues :
         /\ net' = [net EXCEPT !.emotional_state =
                       NeuroForge_update_emotional_state(@, mse)]
         /\ written' = NeuroForge_update_emotional_state(net.emotional_state, mse)
    /\ nstatus' = nstatus
    /\ nlast' = [op |-> "update", inLen |-> 0, outLen |-> 0]
    /\ Step("update")
    /\ writes' = (IF pc = 1 THEN 0 ELSE writes) + 1
    /\ UNCHANGED <<cfg, overlay_len, memories, output, nsteps, adapt_arg,
                   histVars, symVars, bankVars>>

\* train: self.adapt_architecture()
TrainAdapt ==
    /\ At("adapt")
    /\ LET r == NeuroForge_adapt_architecture(net.adaptive_layers, net.emotional_state)
       IN  /\ net' = [net EXCEPT !.adaptive_layers = r.layers]
           /\ nstatus' = IF r.ok THEN "ok" ELSE "panicked"
    /\ adapt_arg' = net.emotional_state
    /\ nlast' = [op |-> "adapt", inLen |-> 0, outLen |-> 0]
    /\ Step("adapt")
    /\ writes' = IF pc = 1 THEN 0 ELSE writes
    /\ UNCHANGED <<cfg, overlay_len, memories, output, nsteps, written,
                   histVars, symVars, bankVars>>

NextNet == NetForward \/ Train \/ TrainForward \/ TrainBackward \/ TrainUpdate \/ TrainAdapt

SpecNet == InitNet /\ [][NextNet]_vars

\* the configured positions and the flags at them
Positions == NeuroForge_new_positions(cfg.layer_sizes, cfg.adaptive, cfg.temporal)
CountPositions(P(_)) == Cardinality({ p \in Positions : P(p) })
FlaggedAdaptive(p) == cfg.adaptive[p]
FlaggedTemporal(p) == cfg.temporal[p]
FlaggedNeither(p) == ~cfg.adaptive[p] /\ ~cfg.temporal[p]
FlaggedTemporalOnly(p) == cfg.temporal[p] /\ ~cfg.adaptive[p]

\* parallel arrays of the same positive length, every layer with at least
\* one unit, at most one flag per position
ValidConfig ==
    /\ Len(cfg.layer_sizes) >= 1
    /\ Len(cfg.adaptive) = Len(cfg.layer_sizes)
    /\ Len(cfg.temporal) = Len(cfg.layer_sizes)
    /\ \A p \in Positions : cfg.layer_sizes[p] >= 1
    /\ \A p \in Positions : ~(cfg.adaptive[p] /\ cfg.temporal[p])

\* the current unit count of the bank built for the last configured position
LastLayerUnits ==
    LET last == Len(cfg.layer_sizes)
        kind == NeuroForge_new_kind(cfg.adaptive[last], cfg.temporal[last])
    IN  IF kind = "quantum" THEN net.quantum_layers[Len(net.quantum_layers)].neurons
        ELSE IF kind = "adaptive"
        THEN Len(net.adaptive_layers[Len(net.adaptive_layers)].neurons)
        ELSE Len(net.temporal_layers[Len(net.temporal_layers)].neurons)

\* C2: for every valid configuration, forward on an input as long as the
\* first configured layer returns, and the output has as many entries as
\* the last configured layer has units (plus one per registered rule; a
\* Network registers none).
C2_ForwardLength ==
    (/\ nlast.op = "forward"
     /\ ValidConfig
     /\ nlast.inLen = cfg.layer_sizes[1])
    => /\ nstatus = "ok"
       /\ nlast.outLen = LastLayerUnits

\* C3 as stated: one bank per position, as many elastic banks as positions
\* flagged adaptive, as many delay banks as positions flagged temporal, as
\* many stochastic banks as positions with neither flag.
C3_BankCountsMatchFlags ==
    /\ Len(net.adaptive_layers) = CountPositions(FlaggedAdaptive)
    /\ Len(net.temporal_layers) = CountPositions(FlaggedTemporal)
    /\ Len(net.quantum_layers) = CountPositions(FlaggedNeither)
    /\ Len(net.adaptive_layers) + Len(net.temporal_layers) + Len(net.quantum_layers)
         = Cardinality(Positions)

\* C3 as amended: one bank per position; elastic banks = positions flagged
\* adaptive; delay banks = positions flagged temporal and not adaptive;
\* stochastic banks = positions with neither flag.
C3_BankCountsMatchBranches ==
    /\ Len(net.adaptive_layers) = CountPositions(FlaggedAdaptive)
    /\ Len(net.temporal_layers) = CountPositions(FlaggedTemporalOnly)
    /\ Len(net.quantum_layers) = CountPositions(FlaggedNeither)
    /\ Len(net.adaptive_layers) + Len(net.temporal_layers) + Len(net.quantum_layers)
         = Cardinality(Positions)

\* a network with a position that carries both flags next to a delay bank
C3_Witness ==
    /\ \E p \in Positions : cfg.adaptive[p] /\ cfg.temporal[p]
    /\ Len(net.temporal_layers) = 1
    /\ Len(net.adaptive_layers) = 1

IsPrefix(a, b) == Len(a) <= Len(b) /\ a = SubSeq(b, 1, Len(a))

\* C4: in every training step the calls come in the order forward,
\* backward, emotional-state update, adaptation; emotional_state is written
\* once per step, by the update and by nothing else, and adaptation
\* receives the value written in the same step.
C4_TrainStepOrder ==
    [][ /\ IsPrefix(events', <<"forward", "backward", "update", "adapt">>)
        /\ net'.emotional_state # net.emotional_state
             => events' = <<"forward", "backward", "update">>
        /\ events' \in {<<"forward">>, <<"forward", "backward">>} => writes' = 0
        /\ Len(events') >= 3 => writes' = 1
        /\ events' = <<"forward", "backward", "update", "adapt">>
             => adapt_arg' = written'
      ]_vars

\* a second training step has run to its end on a network with an elastic
\* bank, and the emotional state has moved
C4_Witness ==
    /\ events = <<"forward", "backward", "update", "adapt">>
    /\ nstatus = "ok"
    /\ nsteps = 2
    /\ Len(net.adaptive_layers) >= 1
    /\ writes = 1
    /\ net.emotional_state \notin {500, NaN}
    /\ adapt_arg = net.emotional_state

====
